---- MODULE Spec2Model ----
(***************************************************************************)
(* Model of leapCallQuote.py: the default-expiration selector              *)
(* (get_default_expiration), the leverage computation                      *)
(* (calculate_leverage_ratios) and the strike-range filter of main().      *)
(*                                                                         *)
(* numpy float64 values are modelled bit for bit: every arithmetic step    *)
(* is an IEEE-754 binary64 operation rounded to nearest even, and the      *)
(* unguarded divisions produce +inf, -inf and NaN as numpy does.           *)
(***************************************************************************)
EXTENDS Integers, Sequences, FiniteSets, TLC

VARIABLES
    pc,                        \* position of the script
    calls,                     \* option chain rows [strike, ask] (fetch_option_data)
    stock_price,               \* main: stock_price
    target_percentage,         \* main: target_percentage (slider)
    min_range, max_range,      \* main: strike_range
    strikes, premiums,         \* results of calculate_leverage_ratios
    leverage_ratios, adjusted_ratios,
    future_price, intrinsic_gains, premium_gains,   \* its locals at return
    filtered_strikes, filtered_leverage_ratios,
    filtered_adjusted_ratios, filtered_premiums,
    expirations,               \* main: expirations ('YYYY-MM-DD' strings)
    today,                     \* datetime.today() seen by get_default_expiration
    default_expiration,        \* main: default_expiration
    error                      \* exception that ended the script, or "none"

vars == <<pc, calls, stock_price, target_percentage, min_range, max_range,
          strikes, premiums, leverage_ratios, adjusted_ratios,
          future_price, intrinsic_gains, premium_gains,
          filtered_strikes, filtered_leverage_ratios,
          filtered_adjusted_ratios, filtered_premiums,
          expirations, today, default_expiration, error>>

leverageVars == <<calls, stock_price, target_percentage, min_range, max_range,
                  strikes, premiums, leverage_ratios, adjusted_ratios,
                  future_price, intrinsic_gains, premium_gains,
                  filtered_strikes, filtered_leverage_ratios,
                  filtered_adjusted_ratios, filtered_premiums>>

selectorVars == <<expirations, today, default_expiration>>

(***************************************************************************)
(* Bounds and input domains.                                               *)
(***************************************************************************)
MaxQuotes == 2
MaxExpirations == 3

\* Input values.  Target and range percentages include 10, where binary64
\* rounding shows: 100 * (1 + 10 / 100) evaluates to 110.00000000000001.
StrikeSet == {90, 100, 110}
AskSet == {0, 1, 5, 12}
PriceSet == {-100, 0, 100}
TargetPctSet == {-20, 0, 10, 20}
RangePctSet == {-50, -10, 0, 10, 20}

(***************************************************************************)
(* IEEE-754 binary64 arithmetic, round to nearest even.                    *)
(*                                                                         *)
(* A number is (-1)^s * M * 2^e with the 53-bit significand                *)
(* M = hi * 2^27 + lo, 2^52 <= M < 2^53 (hi, lo, e are 0 for a zero).      *)
(* cls tells numbers from the infinities and NaN.  The exponent is not     *)
(* bounded: overflow and subnormal results are out of reach of the         *)
(* magnitudes handled here.                                                *)
(***************************************************************************)
B27 == 2^27

Abs(x) == IF x < 0 THEN -x ELSE x

F64(s, hi, lo, e) ==
    [kind |-> "float64", cls |-> "num", s |-> s, hi |-> hi, lo |-> lo, e |-> e]

Zero(s) == F64(s, 0, 0, 0)

Inf(s) == [kind |-> "float64", cls |-> "inf", s |-> s, hi |-> 0, lo |-> 0, e |-> 0]

NaN == [kind |-> "float64", cls |-> "nan", s |-> 0, hi |-> 0, lo |-> 0, e |-> 0]

IsNaN(x) == x.cls = "nan"
IsInf(x) == x.cls = "inf"
IsFinite(x) == x.cls = "num"
IsZero(x) == x.cls = "num" /\ x.hi = 0 /\ x.lo = 0

Xor(s, t) == (s + t) % 2

RECURSIVE BitLen(_)
BitLen(x) == IF x = 0 THEN 0 ELSE 1 + BitLen(x \div 2)

\* (hi * 2^27 + lo) * 2^k as a limb pair; the result stays below 2^58
RECURSIVE ShiftLeft(_, _, _)
ShiftLeft(hi, lo, k) ==
    IF k >= 27 THEN ShiftLeft(lo, 0, k - 27)
    ELSE LET p == 2^k
             q == 2^(27 - k)
         IN [hi |-> hi * p + lo \div q, lo |-> (lo % q) * p]

\* (hi * 2^27 + lo) \div 2^k, the lowest bit set when a 1 bit was shifted out
RECURSIVE ShiftRightSticky(_, _, _, _)
ShiftRightSticky(hi, lo, k, st) ==
    IF k >= 27 THEN ShiftRightSticky(0, hi, k - 27, st \/ lo # 0)
    ELSE LET p == 2^k
             nlo == lo \div p + (hi % p) * (B27 \div p)
             lost == st \/ lo % p # 0
         IN [hi |-> hi \div p,
             lo |-> IF lost /\ nlo % 2 = 0 THEN nlo + 1 ELSE nlo]

\* the binary64 nearest to (-1)^s * (hi * 2^27 + lo) * 2^e, ties to even;
\* hi * 2^27 + lo < 2^58
RoundPack(s, hi, lo, e) ==
    IF hi = 0 /\ lo = 0 THEN Zero(s)
    ELSE
      LET len == IF hi > 0 THEN 27 + BitLen(hi) ELSE BitLen(lo)
          sh == len - 53
      IN IF sh <= 0
         THEN LET z == ShiftLeft(hi, lo, -sh) IN F64(s, z.hi, z.lo, e + sh)
         ELSE
           LET p == 2^sh
               rem == lo % p
               qlo == lo \div p + (hi % p) * (B27 \div p)
               qhi == hi \div p
               up == 2 * rem > p \/ (2 * rem = p /\ qlo % 2 = 1)
               rlo == IF up THEN qlo + 1 ELSE qlo
               nlo == rlo % B27
               nhi == qhi + rlo \div B27
           IN IF nhi = 2^26 THEN F64(s, 2^25, 0, e + sh + 1)
              ELSE F64(s, nhi, nlo, e + sh)

\* int -> float64, exact for |i| < 2^27
FromInt(i) == RoundPack(IF i < 0 THEN 1 ELSE 0, 0, Abs(i), 0)

FNeg(a) == [a EXCEPT !.s = IF IsNaN(a) THEN 0 ELSE 1 - a.s]

\* |a| <= |b| for numbers other than zero
MagLeq(a, b) ==
    \/ a.e < b.e
    \/ a.e = b.e /\ a.hi < b.hi
    \/ a.e = b.e /\ a.hi = b.hi /\ a.lo <= b.lo

\* x + y for non-zero numbers with |x| >= |y|: y is aligned to x with three
\* extra low bits (guard, round, sticky)
AddOrdered(x, y) ==
    LET d == x.e - y.e
        xs == ShiftLeft(x.hi, x.lo, 3)
        ys == IF d <= 3 THEN ShiftLeft(y.hi, y.lo, 3 - d)
              ELSE ShiftRightSticky(y.hi, y.lo, d - 3, FALSE)
        sum == IF x.s = y.s THEN xs.lo + ys.lo ELSE xs.lo - ys.lo + B27
        zlo == sum % B27
        zhi == IF x.s = y.s THEN xs.hi + ys.hi + sum \div B27
               ELSE xs.hi - ys.hi - 1 + sum \div B27
    IN IF zhi = 0 /\ zlo = 0 THEN Zero(0)
       ELSE RoundPack(x.s, zhi, zlo, x.e - 3)

FAdd(a, b) ==
    IF IsNaN(a) \/ IsNaN(b) THEN NaN
    ELSE IF IsInf(a) /\ IsInf(b) THEN (IF a.s = b.s THEN a ELSE NaN)
    ELSE IF IsInf(a) THEN a
    ELSE IF IsInf(b) THEN b
    ELSE IF IsZero(a) /\ IsZero(b) THEN (IF a.s = b.s THEN a ELSE Zero(0))
    ELSE IF IsZero(a) THEN b
    ELSE IF IsZero(b) THEN a
    ELSE IF MagLeq(b, a) THEN AddOrdered(a, b)
    ELSE AddOrdered(b, a)

FSub(a, b) == FAdd(a, FNeg(b))

\* x * y for x, y < 2^27, as a limb pair
Mul27(x, y) ==
    LET x1 == x \div 2^14
        x0 == x % 2^14
        y1 == y \div 2^14
        y0 == y % 2^14
        cross == x1 * y0 + x0 * y1
        low == x0 * y0 + (cross % 2^13) * 2^14
    IN [hi |-> 2 * (x1 * y1) + cross \div 2^13 + low \div B27, lo |-> low % B27]

\* the 106-bit product of the significands, cut to its top bits plus sticky
MulNum(a, b) ==
    LET hh == Mul27(a.hi, b.hi)
        hl == Mul27(a.hi, b.lo)
        lh == Mul27(a.lo, b.hi)
        ll == Mul27(a.lo, b.lo)
        l0 == ll.lo
        s1 == ll.hi + hl.lo + lh.lo
        l1 == s1 % B27
        s2 == hl.hi + lh.hi + hh.lo + s1 \div B27
        l2 == s2 % B27
        l3 == hh.hi + s2 \div B27
        sticky == l0 # 0 \/ l1 % 2^22 # 0
        zlo == l1 \div 2^22 + (l2 % 2^22) * 2^5
        zhi == l2 \div 2^22 + l3 * 2^5
    IN RoundPack(Xor(a.s, b.s), zhi,
                 IF sticky /\ zlo % 2 = 0 THEN zlo + 1 ELSE zlo,
                 a.e + b.e + 49)

FMul(a, b) ==
    IF IsNaN(a) \/ IsNaN(b) THEN NaN
    ELSE IF (IsInf(a) /\ IsZero(b)) \/ (IsZero(a) /\ IsInf(b)) THEN NaN
    ELSE IF IsInf(a) \/ IsInf(b) THEN Inf(Xor(a.s, b.s))
    ELSE IF IsZero(a) \/ IsZero(b) THEN Zero(Xor(a.s, b.s))
    ELSE MulNum(a, b)

\* Long division of the significands, four quotient bits at a time.
\* r < d is the remainder, q the quotient so far, k the digits still to come.
RECURSIVE DivLoop(_, _, _, _, _, _, _)
RECURSIVE DivDigit(_, _, _, _, _, _, _, _)
RECURSIVE DivFix(_, _, _, _, _, _, _, _)

\* at the end the lowest bit of q is set when the remainder is not zero
DivLoop(k, rh, rl, qh, ql, dh, dl) ==
    IF k = 0
    THEN [hi |-> qh, lo |-> IF (rh # 0 \/ rl # 0) /\ ql % 2 = 0 THEN ql + 1 ELSE ql]
    ELSE DivDigit(k, rh * 16 + rl \div 2^23, (rl % 2^23) * 16,
                  (rh * 16 + rl \div 2^23) \div (dh + 1), qh, ql, dh, dl)

\* t = 16 r; g is the digit or one less: take g * d away
DivDigit(k, th, tl, g, qh, ql, dh, dl) ==
    DivFix(k, th - g * dh + (tl - g * dl) \div B27, (tl - g * dl) % B27,
           g, qh, ql, dh, dl)

\* one more d when it still fits, then the digit joins q
DivFix(k, th, tl, g, qh, ql, dh, dl) ==
    IF th > dh \/ (th = dh /\ tl >= dl)
    THEN DivLoop(k - 1, th - dh + (tl - dl) \div B27, (tl - dl) % B27,
                 qh * 16 + (ql * 16 + g + 1) \div B27, (ql * 16 + g + 1) % B27, dh, dl)
    ELSE DivLoop(k - 1, th, tl,
                 qh * 16 + (ql * 16 + g) \div B27, (ql * 16 + g) % B27, dh, dl)

DivPack(s, q, e) == RoundPack(s, q.hi, q.lo, e)

\* floor(Ma * 2^56 / Mb) with sticky, rounded
DivNum(a, b) ==
    DivPack(Xor(a.s, b.s),
            IF a.hi > b.hi \/ (a.hi = b.hi /\ a.lo >= b.lo)
            THEN DivLoop(14, a.hi - b.hi + (a.lo - b.lo) \div B27,
                         (a.lo - b.lo) % B27, 0, 1, b.hi, b.lo)
            ELSE DivLoop(14, a.hi, a.lo, 0, 0, b.hi, b.lo),
            a.e - b.e - 56)

\* true division as numpy does it: x/0 is +-inf, 0/0 and inf/inf are NaN,
\* a RuntimeWarning at most, never an exception
FDiv(a, b) ==
    IF IsNaN(a) \/ IsNaN(b) THEN NaN
    ELSE IF IsInf(a) /\ IsInf(b) THEN NaN
    ELSE IF IsInf(a) THEN Inf(Xor(a.s, b.s))
    ELSE IF IsInf(b) THEN Zero(Xor(a.s, b.s))
    ELSE IF IsZero(a) /\ IsZero(b) THEN NaN
    ELSE IF IsZero(b) THEN Inf(Xor(a.s, b.s))
    ELSE IF IsZero(a) THEN Zero(Xor(a.s, b.s))
    ELSE DivNum(a, b)

\* -1, 0 or 1 as the sign of a value that is not NaN
Sign(a) == IF IsZero(a) THEN 0 ELSE IF a.s = 1 THEN -1 ELSE 1

\* |a| <= |b| for non-zero values that are not NaN
AbsLeq(a, b) ==
    IF IsInf(b) THEN TRUE
    ELSE IF IsInf(a) THEN FALSE
    ELSE MagLeq(a, b)

\* a <= b on values that are not NaN
FLeq(a, b) ==
    IF Sign(a) # Sign(b) THEN Sign(a) < Sign(b)
    ELSE IF Sign(a) = 0 THEN TRUE
    ELSE IF Sign(a) = 1 THEN AbsLeq(a, b)
    ELSE AbsLeq(b, a)

\* variant: the bound applied as an upper bound, clip(max=m)
ClipMax(x, m) == IF IsNaN(x) THEN x ELSE IF FLeq(x, m) THEN x ELSE m

\* ndarray.clip(min=m), one element
Clip(x, m) == IF IsNaN(x) THEN x ELSE IF FLeq(m, x) THEN x ELSE m

(***************************************************************************)
(* calculate_leverage_ratios                                               *)
(***************************************************************************)
\* variant: the strike column read in descending row order
StrikesReversed(cs) == [i \in 1..Len(cs) |-> FromInt(cs[Len(cs) + 1 - i].strike)]

\* calls['strike'].values
Strikes(cs) == [i \in 1..Len(cs) |-> FromInt(cs[i].strike)]

\* calls['ask'].values
Premiums(cs) == [i \in 1..Len(cs) |-> FromInt(cs[i].ask)]

\* stock_price / premiums
LeverageRatios(price, ps) == [i \in 1..Len(ps) |-> FDiv(FromInt(price), ps[i])]

\* gain_pct / 100
GainFraction(pct) == FDiv(FromInt(pct), FromInt(100))

\* stock_price * (1 + gain_pct / 100)
FuturePrice(price, pct) == FMul(FromInt(price), FAdd(FromInt(1), GainFraction(pct)))

\* (future_price - strikes).clip(min=0)
IntrinsicGains(fp, ks) == [i \in 1..Len(ks) |-> Clip(FSub(fp, ks[i]), FromInt(0))]

\* variant: the premium paid is not deducted
PremiumGainsGross(igs, ps) == [i \in 1..Len(ps) |-> igs[i]]

\* intrinsic_gains - premiums
PremiumGains(igs, ps) == [i \in 1..Len(ps) |-> FSub(igs[i], ps[i])]

\* (premium_gains / premiums) / g, g the scalar gain_pct / 100
DivideBy(pgs, ps, g) == [i \in 1..Len(ps) |-> FDiv(FDiv(pgs[i], ps[i]), g)]

\* (premium_gains / premiums) / (gain_pct / 100)
AdjustedRatios(pgs, ps, pct) == DivideBy(pgs, ps, GainFraction(pct))

(***************************************************************************)
(* main(): the strike-range filter (boolean-mask indexing)                 *)
(***************************************************************************)
\* stock_price * (1 + min_range / 100), likewise for max_range
RangeStrike(price, pct) == FMul(FromInt(price), FAdd(FromInt(1), GainFraction(pct)))

\* min_strike and max_strike for every price and range percentage of the
\* input sets, evaluated once
StrikeBound == [price \in PriceSet, pct \in RangePctSet |-> RangeStrike(price, pct)]

\* variant: upper end exclusive
MaskExclusive(ks, lo, hi) == [i \in 1..Len(ks) |-> FLeq(lo, ks[i]) /\ ~FLeq(hi, ks[i])]

\* variant: the two bounds interchanged
MaskSwapped(ks, lo, hi) == [i \in 1..Len(ks) |-> FLeq(hi, ks[i]) /\ FLeq(ks[i], lo)]

\* variant: the two comparisons joined by | instead of &
MaskEither(ks, lo, hi) == [i \in 1..Len(ks) |-> FLeq(lo, ks[i]) \/ FLeq(ks[i], hi)]

\* (strikes >= min_strike) & (strikes <= max_strike)
Mask(ks, lo, hi) == [i \in 1..Len(ks) |-> FLeq(lo, ks[i]) /\ FLeq(ks[i], hi)]

\* arr[mask]: the elements at the True positions, in order
RECURSIVE BoolIndex(_, _)
BoolIndex(arr, mask) ==
    IF Len(arr) = 0 THEN <<>>
    ELSE IF Head(mask) THEN <<Head(arr)>> \o BoolIndex(Tail(arr), Tail(mask))
    ELSE BoolIndex(Tail(arr), Tail(mask))

(***************************************************************************)
(* Inputs handed in by the market-data provider and the widgets.           *)
(***************************************************************************)
Quote == [strike : StrikeSet, ask : AskSet]

\* option chains of at most MaxQuotes rows, one row per strike, in any order
CallsSet ==
    UNION { { cs \in [1..k -> Quote] :
                \A i, j \in 1..k : i < j => cs[i].strike # cs[j].strike }
            : k \in 0..MaxQuotes }

(***************************************************************************)
(* The script main(), from the price lookup to the filtered series.        *)
(***************************************************************************)
SelectorIdle ==
    /\ expirations = <<>>
    /\ today = [date |-> <<1, 1, 1>>, hour |-> 0]
    /\ default_expiration = <<1, 1, 1>>

LeverageIdle ==
    /\ calls = <<>>
    /\ stock_price = 0
    /\ target_percentage = 0
    /\ min_range = 0
    /\ max_range = 0
    /\ strikes = <<>>
    /\ premiums = <<>>
    /\ leverage_ratios = <<>>
    /\ adjusted_ratios = <<>>
    /\ future_price = Zero(0)
    /\ intrinsic_gains = <<>>
    /\ premium_gains = <<>>
    /\ filtered_strikes = <<>>
    /\ filtered_leverage_ratios = <<>>
    /\ filtered_adjusted_ratios = <<>>
    /\ filtered_premiums = <<>>

Init ==
    /\ pc = "start"
    /\ error = "none"
    /\ LeverageIdle
    /\ SelectorIdle

\* stock_price, target_percentage and the option chain arrive
FetchInputs ==
    /\ pc = "start"
    /\ \E price \in PriceSet, pct \in TargetPctSet, cs \in CallsSet :
         /\ stock_price' = price
         /\ target_percentage' = pct
         /\ calls' = cs
    /\ pc' = "fetched"
    /\ UNCHANGED <<min_range, max_range, strikes, premiums, leverage_ratios,
                   adjusted_ratios, future_price, intrinsic_gains, premium_gains,
                   filtered_strikes, filtered_leverage_ratios,
                   filtered_adjusted_ratios, filtered_premiums,
                   selectorVars, error>>

\* strikes, leverage_ratios, adjusted_ratios, premiums = calculate_leverage_ratios(...)
CalculateLeverageRatios ==
    /\ pc = "fetched"
    /\ LET ks == Strikes(calls)
           ps == Premiums(calls)
           fp == FuturePrice(stock_price, target_percentage)
           igs == IntrinsicGains(fp, ks)
           pgs == PremiumGains(igs, ps)
       IN /\ strikes' = ks
          /\ premiums' = ps
          /\ leverage_ratios' = LeverageRatios(stock_price, ps)
          /\ future_price' = fp
          /\ intrinsic_gains' = igs
          /\ premium_gains' = pgs
          /\ adjusted_ratios' = AdjustedRatios(pgs, ps, target_percentage)
    /\ pc' = "computed"
    /\ UNCHANGED <<calls, stock_price, target_percentage, min_range, max_range,
                   filtered_strikes, filtered_leverage_ratios,
                   filtered_adjusted_ratios, filtered_premiums,
                   selectorVars, error>>

\* the four boolean-mask selections, for a strike range (lo, hi) in percent.
\* The range is drawn here, where it is first used; any pair is tried, also
\* lo > hi, which the range slider itself never returns.
FilterByStrikeRange ==
    /\ pc = "computed"
    /\ \E lo \in RangePctSet, hi \in RangePctSet :
         LET min_strike == StrikeBound[stock_price, lo]
             max_strike == StrikeBound[stock_price, hi]
             mask == Mask(strikes, min_strike, max_strike)
         IN /\ min_range' = lo
            /\ max_range' = hi
            /\ filtered_strikes' = BoolIndex(strikes, mask)
            /\ filtered_leverage_ratios' = BoolIndex(leverage_ratios, mask)
            /\ filtered_adjusted_ratios' = BoolIndex(adjusted_ratios, mask)
            /\ filtered_premiums' = BoolIndex(premiums, mask)
    /\ pc' = "filtered"
    /\ UNCHANGED <<calls, stock_price, target_percentage, strikes, premiums,
                   leverage_ratios, adjusted_ratios, future_price,
                   intrinsic_gains, premium_gains, selectorVars, error>>

Next == FetchInputs \/ CalculateLeverageRatios \/ FilterByStrikeRange

Spec == Init /\ [][Next]_vars

(***************************************************************************)
(* get_default_expiration                                                  *)
(***************************************************************************)
HoursPerDay == 24
DaysInAYear == 365

IsLeap(y) == y % 4 = 0 /\ (y % 100 # 0 \/ y % 400 = 0)

\* days before January 1st of year y (proleptic Gregorian ordinal)
DaysBeforeYear(y) ==
    LET p == y - 1 IN p * 365 + p \div 4 - p \div 100 + p \div 400

DaysInMonth(y, m) ==
    IF m = 2 THEN (IF IsLeap(y) THEN 29 ELSE 28)
    ELSE IF m \in {4, 6, 9, 11} THEN 30 ELSE 31

RECURSIVE DaysBeforeMonth(_, _)
DaysBeforeMonth(y, m) ==
    IF m = 1 THEN 0 ELSE DaysBeforeMonth(y, m - 1) + DaysInMonth(y, m - 1)

Ordinal(ymd) == DaysBeforeYear(ymd[1]) + DaysBeforeMonth(ymd[1], ymd[2]) + ymd[3]

\* datetime.strptime(x, '%Y-%m-%d'): midnight of that day, in hours
Strptime(x) == Ordinal(x) * HoursPerDay

\* a datetime with its time of day, in hours
Instant(dt) == Ordinal(dt.date) * HoursPerDay + dt.hour

\* today + timedelta(days=365)
OneYearLater(now) == Instant(now) + DaysInAYear * HoursPerDay

\* key=lambda x: abs(datetime.strptime(x, '%Y-%m-%d') - one_year_later)
Key(x, one_year_later) == Abs(Strptime(x) - one_year_later)

\* variant: a later element with an equal key replaces the best one
RECURSIVE MinScanLast(_, _, _)
MinScanLast(best, rest, one_year_later) ==
    IF rest = <<>> THEN best
    ELSE MinScanLast(IF Key(Head(rest), one_year_later) <= Key(best, one_year_later)
                     THEN Head(rest) ELSE best,
                     Tail(rest), one_year_later)

\* min(iterable, key=...): scans left to right and replaces the best element
\* only by a strictly smaller key
RECURSIVE MinScan(_, _, _)
MinScan(best, rest, one_year_later) ==
    IF rest = <<>> THEN best
    ELSE MinScan(IF Key(Head(rest), one_year_later) < Key(best, one_year_later)
                 THEN Head(rest) ELSE best,
                 Tail(rest), one_year_later)

\* defined on a non-empty sequence; min() of an empty one raises ValueError
get_default_expiration(exps, now) ==
    MinScan(Head(exps), Tail(exps), OneYearLater(now))

ExpirationSet ==
    { <<2025, 1, 1>>, <<2025, 1, 17>>, <<2026, 1, 5>>,
      <<2026, 1, 9>>, <<2026, 1, 11>>, <<2026, 1, 12>> }

TodaySet ==
    [date : { <<2024, 1, 10>>, <<2025, 1, 10>> }, hour : {0, 12, 18}]

\* at most MaxExpirations distinct dates, in any order
ExpirationsSet ==
    UNION { { es \in [1..k -> ExpirationSet] :
                \A i, j \in 1..k : i < j => es[i] # es[j] }
            : k \in 0..MaxExpirations }

InitSel ==
    /\ pc = "start"
    /\ error = "none"
    /\ LeverageIdle
    /\ SelectorIdle

\* expirations = get_expiration_dates(symbol), at some moment of some day
GetExpirationDates ==
    /\ pc = "start"
    /\ \E es \in ExpirationsSet, now \in TodaySet :
         /\ expirations' = es
         /\ today' = now
    /\ pc' = "expirations"
    /\ UNCHANGED <<default_expiration, leverageVars, error>>

\* default_expiration = get_default_expiration(expirations)
GetDefaultExpiration ==
    /\ pc = "expirations"
    /\ expirations # <<>>
    /\ default_expiration' = get_default_expiration(expirations, today)
    /\ pc' = "selected"
    /\ UNCHANGED <<expirations, today, leverageVars, error>>

\* min() of an empty sequence: ValueError ends the script
GetDefaultExpirationEmpty ==
    /\ pc = "expirations"
    /\ expirations = <<>>
    /\ error' = "ValueError"
    /\ pc' = "failed"
    /\ UNCHANGED <<selectorVars, leverageVars>>

NextSel == GetExpirationDates \/ GetDefaultExpiration \/ GetDefaultExpirationEmpty

SpecSel == InitSel /\ [][NextSel]_vars

(***************************************************************************)
(* Properties.                                                             *)
(***************************************************************************)
Computed == pc \in {"computed", "filtered"}

\* 100 * targetPrice, 100 * intrinsicGain and 100 * premiumGain of a quote,
\* in integer arithmetic
TargetPrice100 == stock_price * (100 + target_percentage)
Intrinsic100(q) ==
    IF TargetPrice100 - 100 * q.strike > 0 THEN TargetPrice100 - 100 * q.strike ELSE 0
PremiumGain100(q) == Intrinsic100(q) - 100 * q.ask

FAbs(a) == [a EXCEPT !.s = 0]

\* 2^-20
Tolerance == FDiv(FromInt(1), FromInt(2^20))

SevenAndAHalf == FDiv(FromInt(15), FromInt(2))

\* C1: for every row with ask > 0 and targetPct # 0 the adjusted leverage ratio
\* returned is the finite number
\* ((max(targetPrice - strike, 0) - premium) / premium) / (targetPct / 100),
\* up to binary64 rounding: multiplied by ask * targetPct it is within 2^-20 of
\* 100 * premiumGain computed in integers.  On the scenario rows with price 100
\* and targetPct 20 it is exactly 7.5 for (90, 12) and 45 for (110, 1).
C1_AdjustedRatioFormula ==
    pc = "computed" =>
      \A i \in 1..Len(calls) :
        (calls[i].ask > 0 /\ target_percentage # 0) =>
          /\ Len(adjusted_ratios) >= i
          /\ IsFinite(adjusted_ratios[i])
          /\ FLeq(FAbs(FSub(FMul(adjusted_ratios[i],
                                 FromInt(calls[i].ask * target_percentage)),
                            FromInt(PremiumGain100(calls[i])))),
                  Tolerance)
          /\ (stock_price = 100 /\ target_percentage = 20) =>
               /\ calls[i] = [strike |-> 90, ask |-> 12] =>
                    adjusted_ratios[i] = SevenAndAHalf
               /\ calls[i] = [strike |-> 110, ask |-> 1] =>
                    adjusted_ratios[i] = FromInt(45)

C1_Witness ==
    /\ pc = "computed"
    /\ calls = << [strike |-> 90, ask |-> 12], [strike |-> 110, ask |-> 1] >>
    /\ stock_price = 100
    /\ target_percentage = 20
    /\ adjusted_ratios = << SevenAndAHalf, FromInt(45) >>

\* C2: the strike, premium, leverage-ratio and adjusted-ratio sequences returned
\* all have the length of the input, and the i-th strike returned is the i-th
\* input strike (no row dropped or reordered).
C2_LengthOrderPreserved ==
    Computed =>
      /\ Len(strikes) = Len(calls)
      /\ Len(premiums) = Len(calls)
      /\ Len(leverage_ratios) = Len(calls)
      /\ Len(adjusted_ratios) = Len(calls)
      /\ \A i \in 1..Len(calls) :
           /\ strikes[i] = FromInt(calls[i].strike)
           /\ premiums[i] = FromInt(calls[i].ask)

C2_Witness ==
    /\ pc = "computed"
    /\ Len(calls) = 2
    /\ calls[1].strike > calls[2].strike
    /\ calls[1].ask = 0
    /\ Len(adjusted_ratios) = 2

\* the per-row marker of the specification; no float64 value equals it
UndefinedRatio ==
    [kind |-> "UndefinedRatio", cls |-> "undefined", s |-> 0, hi |-> 0, lo |-> 0, e |-> 0]

\* C3: a quote with ask = 0 gets the UndefinedRatio marker for both leverage
\* fields, without a fault, and never an infinite or NaN plain number.
C3_ZeroPremiumMarker ==
    Computed =>
      /\ error = "none"
      /\ \A i \in 1..Len(calls) :
           calls[i].ask = 0 =>
             /\ leverage_ratios[i] = UndefinedRatio
             /\ adjusted_ratios[i] = UndefinedRatio
             /\ ~(leverage_ratios[i].kind = "float64" /\ ~IsFinite(leverage_ratios[i]))
             /\ ~(adjusted_ratios[i].kind = "float64" /\ ~IsFinite(adjusted_ratios[i]))

\* C4: with targetPct = 0 and a non-empty chain, every row's adjusted leverage
\* ratio is the UndefinedRatio marker, not a non-finite number.
C4_ZeroTargetMarker ==
    (Computed /\ target_percentage = 0 /\ calls # <<>>) =>
      \A i \in 1..Len(calls) : adjusted_ratios[i] = UndefinedRatio

\* C5: intrinsicGain is never negative, and a quote with strike >= targetPrice
\* (the target price as computed, future_price) has intrinsicGain = 0 and
\* premiumGain = -premium, for any targetPct; so has every quote whose strike
\* is above the target price in integer arithmetic.
C5_IntrinsicGainClipped ==
    pc = "computed" =>
      \A i \in 1..Len(calls) :
        /\ IsFinite(intrinsic_gains[i])
        /\ Sign(intrinsic_gains[i]) >= 0
        /\ (FLeq(future_price, strikes[i]) \/ 100 * calls[i].strike > TargetPrice100) =>
             /\ intrinsic_gains[i] = Zero(0)
             /\ premium_gains[i] = FromInt(-calls[i].ask)

C5_Witness ==
    /\ pc = "computed"
    /\ stock_price = 100
    /\ target_percentage = -20
    /\ \E i \in 1..Len(calls) :
         /\ calls[i].strike = 90
         /\ calls[i].ask = 12
         /\ intrinsic_gains[i] = Zero(0)
         /\ premium_gains[i] = FromInt(-12)

\* minStrike and maxStrike of the current range, as the filter computes them
MinStrike == StrikeBound[stock_price, min_range]
MaxStrike == StrikeBound[stock_price, max_range]

\* rows with minStrike <= strike <= maxStrike
Kept == { i \in 1..Len(calls) :
            FLeq(MinStrike, strikes[i]) /\ FLeq(strikes[i], MaxStrike) }

Rank(i) == Cardinality({ j \in Kept : j <= i })

\* strictly inside, or outside, the range in integer arithmetic (times 100)
Inside100(q) ==
    /\ stock_price * (100 + min_range) < 100 * q.strike
    /\ 100 * q.strike < stock_price * (100 + max_range)
Outside100(q) ==
    \/ stock_price * (100 + min_range) > 100 * q.strike
    \/ 100 * q.strike > stock_price * (100 + max_range)

\* C6: the filter keeps exactly the rows with minStrike <= strike <= maxStrike
\* (both ends inclusive; the bounds are currentPrice*(1+pct/100) as computed),
\* in their relative order, and the four filtered sequences stay aligned row
\* by row.  Rows strictly inside the range in integer arithmetic are kept and
\* rows outside it are dropped.
C6_FilterExactInclusive ==
    pc = "filtered" =>
      /\ Len(filtered_strikes) = Cardinality(Kept)
      /\ Len(filtered_leverage_ratios) = Cardinality(Kept)
      /\ Len(filtered_adjusted_ratios) = Cardinality(Kept)
      /\ Len(filtered_premiums) = Cardinality(Kept)
      /\ \A i \in Kept :
           /\ filtered_strikes[Rank(i)] = strikes[i]
           /\ filtered_leverage_ratios[Rank(i)] = leverage_ratios[i]
           /\ filtered_adjusted_ratios[Rank(i)] = adjusted_ratios[i]
           /\ filtered_premiums[Rank(i)] = premiums[i]
      /\ \A i \in 1..Len(calls) :
           /\ Inside100(calls[i]) => i \in Kept
           /\ Outside100(calls[i]) => i \notin Kept

C6_Witness ==
    /\ pc = "filtered"
    /\ stock_price = 100
    /\ min_range = -10
    /\ max_range = 0
    /\ Len(calls) = 2
    /\ calls[1].strike = 100
    /\ calls[2].strike = 90
    /\ calls[1].ask # calls[2].ask
    /\ filtered_strikes = << FromInt(100), FromInt(90) >>
    /\ filtered_premiums = << premiums[1], premiums[2] >>

Rows(ks, ls, as, ps) ==
    [i \in 1..Len(ks) |-> [strike |-> ks[i], leverage |-> ls[i],
                           adjusted |-> as[i], premium |-> ps[i]]]

RECURSIVE IsSubSeq(_, _)
IsSubSeq(a, b) ==
    IF a = <<>> THEN TRUE
    ELSE IF b = <<>> THEN FALSE
    ELSE IF Head(a) = Head(b) THEN IsSubSeq(Tail(a), Tail(b))
    ELSE IsSubSeq(a, Tail(b))

FilteredRows ==
    Rows(filtered_strikes, filtered_leverage_ratios,
         filtered_adjusted_ratios, filtered_premiums)

\* the filter applied to the computed result for the range (lo, hi)
FilterRows(lo, hi) ==
    LET mask == Mask(strikes, StrikeBound[stock_price, lo], StrikeBound[stock_price, hi])
    IN Rows(BoolIndex(strikes, mask), BoolIndex(leverage_ratios, mask),
            BoolIndex(adjusted_ratios, mask), BoolIndex(premiums, mask))

\* C7: for a positive price, the output for a range is a sub-sequence of the
\* input, and the output for any narrower range (lo2 >= lo1, hi2 <= hi1) is a
\* sub-sequence of it, hence never longer.
C7_FilterMonotone ==
    (pc = "filtered" /\ stock_price > 0) =>
      /\ IsSubSeq(FilteredRows,
                  Rows(strikes, leverage_ratios, adjusted_ratios, premiums))
      /\ \A lo2 \in RangePctSet, hi2 \in RangePctSet :
           (min_range <= lo2 /\ hi2 <= max_range) =>
             /\ IsSubSeq(FilterRows(lo2, hi2), FilteredRows)
             /\ Len(FilterRows(lo2, hi2)) <= Len(FilteredRows)

C7_Witness ==
    /\ pc = "filtered"
    /\ stock_price = 100
    /\ min_range = -50
    /\ max_range = 20
    /\ Len(FilteredRows) = 2
    /\ Len(FilterRows(10, 20)) = 0
    /\ Len(FilterRows(0, 10)) = 2
    /\ Len(FilterRows(0, 0)) = 1
    /\ filtered_strikes = << FromInt(110), FromInt(100) >>

\* C8: with lowPct > highPct and a positive price the filter returns an empty
\* result and raises nothing.
C8_EmptyRange ==
    (pc = "filtered" /\ stock_price > 0 /\ min_range > max_range) =>
      /\ filtered_strikes = <<>>
      /\ filtered_leverage_ratios = <<>>
      /\ filtered_adjusted_ratios = <<>>
      /\ filtered_premiums = <<>>
      /\ error = "none"

C8_Witness ==
    /\ pc = "filtered"
    /\ stock_price = 100
    /\ min_range = 10
    /\ max_range = -10
    /\ Len(strikes) = 2
    /\ filtered_strikes = <<>>
    /\ error = "none"

\* distance of an expiration date from the instant today + 365 days, in hours
Distance(x) == Abs(Ordinal(x) * 24 - (Ordinal(today.date) * 24 + today.hour + 365 * 24))

\* C9: on a non-empty collection the selector returns an element at minimal
\* absolute distance from today + 365 days, and among equidistant elements the
\* one that comes first in input order.
C9_NearestFirst ==
    pc = "selected" =>
      \E i \in 1..Len(expirations) :
        /\ default_expiration = expirations[i]
        /\ \A j \in 1..Len(expirations) :
             /\ Distance(expirations[j]) >= Distance(expirations[i])
             /\ j < i => Distance(expirations[j]) > Distance(expirations[i])

C9_Witness ==
    /\ pc = "selected"
    /\ today = [date |-> <<2025, 1, 10>>, hour |-> 0]
    /\ expirations = << <<2025, 1, 17>>, <<2026, 1, 11>>, <<2026, 1, 9>> >>
    /\ default_expiration = <<2026, 1, 11>>

\* C10: with a non-positive currentPrice the computation fails with
\* InvalidScenarioError and returns no leverage result.
C10_InvalidScenarioRejected ==
    (pc # "start" /\ stock_price <= 0) =>
      /\ ~Computed
      /\ pc = "failed" => error = "InvalidScenarioError"
      /\ leverage_ratios = <<>>
      /\ adjusted_ratios = <<>>

====
